---- MODULE Spec2Model ----
(***************************************************************************)
(* A model of structtools: the struct-format size calculator              *)
(* (structsup.py) and the container codecs (container.py).                 *)
(*                                                                         *)
(* Representation                                                          *)
(*   bytes        a sequence of integers 0..255                            *)
(*   str          a sequence of code points                                *)
(*   a format     a sequence of one-character strings                      *)
(*   None / x     <<>> / <<x>>  (an optional value)                        *)
(*   a raised exception is a record with ok = FALSE and the class name     *)
(***************************************************************************)
EXTENDS Integers, Sequences, FiniteSets, TLC

\* fmt_arg, widths      the argument and the outcome of the last sizes(fmt)
\* call, codec          the last constructor call (the class and its
\*                      arguments) and its outcome
\* value_arg, encoded   the argument and the outcome of the last codec.data(v)
\* data_arg, entire_arg, decoded
\*                      the arguments and the outcome of the last
\*                      codec.value(data, is_entire)
\* extra_arg            the bytes appended to encoded.data to make data_arg
\* walk                 where a running Array.value is in the loop of
\*                      Array._iter_varsize_eresults: its position pc, the
\*                      cursor i, the element count n and the datasize of
\*                      the element just yielded
VARIABLES fmt_arg, widths, call, codec, value_arg, encoded, data_arg,
          extra_arg, entire_arg, decoded, walk

vars == <<fmt_arg, widths, call, codec, value_arg, encoded, data_arg,
          extra_arg, entire_arg, decoded, walk>>

None == <<>>
Some(x) == <<x>>

\* data[i:] of Python, i a 0-based start that may exceed len(data)
From(d, i) == SubSeq(d, i + 1, Len(d))
\* data[:n] of Python, n >= 0
Upto(d, n) == SubSeq(d, 1, IF n < Len(d) THEN n ELSE Len(d))

RECURSIVE Sum(_)
Sum(s) == IF s = <<>> THEN 0 ELSE Head(s) + Sum(Tail(s))

RECURSIVE Join(_)
Join(ss) == IF ss = <<>> THEN <<>> ELSE Head(ss) \o Join(Tail(ss))

\* the sequences over S of length 0..n
SeqsUpTo(S, n) == UNION {[1..k -> S] : k \in 0..n}

(***************************************************************************)
(* structsup.py                                                            *)
(***************************************************************************)
FIRSTS == {"@", "=", "<", ">", "!"}
LENGTHED_TYPECHARS == {"x", "s", "p"}

DecimalChars == <<"0", "1", "2", "3", "4", "5", "6", "7", "8", "9">>
IsDecimalChar(ch) == \E d \in 1..10 : DecimalChars[d] = ch
DigitValue(ch) == (CHOOSE d \in 1..10 : DecimalChars[d] = ch) - 1

\* str.isdecimal(): non-empty and all characters decimal
IsDecimal(s) == s # <<>> /\ \A k \in 1..Len(s) : IsDecimalChar(s[k])

\* int(s) of a decimal string
RECURSIVE ToInt(_)
ToInt(s) ==
  IF s = <<>> THEN 0
  ELSE 10 * ToInt(SubSeq(s, 1, Len(s) - 1)) + DigitValue(s[Len(s)])

\* str(n) of a natural number
RECURSIVE ToStr(_)
ToStr(n) ==
  IF n < 10 THEN <<DecimalChars[n + 1]>>
  ELSE ToStr(n \div 10) \o <<DecimalChars[(n % 10) + 1]>>

StructError == [ok |-> FALSE, err |-> "struct.error"]

\* The width of one item of the struct module's format table; -1: bad char.
\* mode "@" is the native table (also used when the format has no marker),
\* the others are the standard table.
UnitSize(mode, ch) ==
  CASE ch \in {"x", "c", "b", "B", "?", "s", "p"} -> 1
    [] ch \in {"h", "H", "e"} -> 2
    [] ch \in {"i", "I", "f"} -> 4
    [] ch \in {"l", "L"} -> IF mode = "@" THEN 8 ELSE 4
    [] ch \in {"q", "Q", "d"} -> 8
    [] ch \in {"n", "N", "P"} -> IF mode = "@" THEN 8 ELSE -1
    [] OTHER -> -1

\* the number of leading decimal characters of s
RECURSIVE LeadingDigits(_)
LeadingDigits(s) ==
  IF s # <<>> /\ IsDecimalChar(s[1]) THEN 1 + LeadingDigits(Tail(s)) ELSE 0

\* struct.Struct(mode + s).size, the marker already taken off: whitespace is
\* skipped, a digit run is a repeat count and must be followed by a format
\* character. (Native alignment only pads between the fields of a format of
\* several fields; iterinst only builds formats of one field.)
RECURSIVE CalcSize(_, _, _), CalcItem(_, _, _, _)
CalcSize(mode, s, total) ==
  IF s = <<>> THEN [ok |-> TRUE, size |-> total]
  ELSE IF s[1] = " " THEN CalcSize(mode, Tail(s), total)
  ELSE CalcItem(mode, s, total, LeadingDigits(s))

\* one item of the format: k digits of repeat count, then the format character
CalcItem(mode, s, total, k) ==
  IF k = Len(s) THEN StructError
  ELSE IF UnitSize(mode, s[k + 1]) < 0 THEN StructError
  ELSE CalcSize(mode, From(s, k + 1),
                total + (IF k = 0 THEN 1 ELSE ToInt(SubSeq(s, 1, k)))
                        * UnitSize(mode, s[k + 1]))

\* struct.Struct(s).size
StructSize(s) ==
  IF s # <<>> /\ s[1] \in FIRSTS
  THEN CalcSize(IF s[1] = "@" THEN "@" ELSE "std", Tail(s), 0)
  ELSE CalcSize("@", s, 0)

\* the index i the digit loop of iterinst stops at:
\*   while i < len(remain) - 1 and remain[:i+1].isdecimal(): i += 1
RECURSIVE DigitLoop(_, _)
DigitLoop(remain, i) ==
  IF i < Len(remain) - 1 /\ IsDecimal(Upto(remain, i + 1))
  THEN DigitLoop(remain, i + 1)
  ELSE i

\* n copies of x
Repeat(x, n) == [k \in 1..n |-> x]

\* a variant of the test below without "not n": a zero count would then
\* yield nothing for an ordinary type character
YieldsOneLengthedOnly(n, typechar) == typechar \in LENGTHED_TYPECHARS

\* Lengthed type characters yield one Struct whose width the count scales,
\* as a zero count does for every type character; all other tokens yield
\* the unit Struct count times.
YieldsOne(n, typechar) == n = 0 \/ typechar \in LENGTHED_TYPECHARS

\* iterinst(fmt), as the sizes of the Structs it yields. A marker is only
\* ever tested at i = 0, so the "i > 0" branch is never taken.
RECURSIVE iterinst(_, _, _), iterinst_token(_, _, _, _),
          iterinst_yield(_, _, _, _, _, _)
iterinst(first, remain, acc) ==
  IF remain = <<>> THEN [ok |-> TRUE, sizes |-> acc]
  ELSE IF remain[1] \in FIRSTS THEN iterinst(<<remain[1]>>, Tail(remain), acc)
  ELSE IF remain[1] # " " THEN iterinst_token(first, remain, acc,
                                              DigitLoop(remain, 0))
  ELSE iterinst(first, Tail(remain), acc)

\* the token remain[:i+1]: n = int(remain[:i]) if i else 1, typechar = remain[i]
iterinst_token(first, remain, acc, i) ==
  iterinst_yield(first, From(remain, i + 1), acc,
                 IF i # 0 THEN ToInt(Upto(remain, i)) ELSE 1, remain[i + 1],
                 IF YieldsOne(IF i # 0 THEN ToInt(Upto(remain, i)) ELSE 1,
                              remain[i + 1])
                 THEN StructSize(first
                        \o ToStr(IF i # 0 THEN ToInt(Upto(remain, i)) ELSE 1)
                        \o <<remain[i + 1]>>)
                 ELSE StructSize(first \o <<remain[i + 1]>>))

\* the Structs yielded for a token, s the outcome of building its Struct
iterinst_yield(first, remain, acc, n, typechar, s) ==
  IF ~s.ok THEN StructError
  ELSE iterinst(first, remain,
                acc \o (IF YieldsOne(n, typechar) THEN <<s.size>>
                        ELSE Repeat(s.size, n)))

\* sizes(fmt) = tuple(itersizes(fmt))
sizes(f) == iterinst(<<>>, f, <<>>)

(***************************************************************************)
(* container.py: results, errors, text and integer conversions             *)
(*                                                                         *)
(* Arguments are well typed: Container.validate, Integer.validate and the  *)
(* isinstance tests of the constructors always pass. tuple and list are    *)
(* both sequences.                                                         *)
(***************************************************************************)
Raise(e) == [ok |-> FALSE, err |-> e]

\* Result = namedtuple('Result', 'value data datasize subsize')
Result(val, d, ds, ss) ==
  [ok |-> TRUE, value |-> val, data |-> d, datasize |-> ds, subsize |-> ss]

\* A subsize is an int (Leaf) or a tuple/list of subsizes (Node).
Leaf(w) == [leaf |-> w]
Node(s) == [node |-> s]
IsLeaf(t) == "leaf" \in DOMAIN t

\* the first raised exception of a sequence of outcomes, as a list
\* comprehension or list(generator) propagates it; None when all are ok
FirstError(rs) ==
  IF \A k \in 1..Len(rs) : rs[k].ok THEN None
  ELSE Some(rs[CHOOSE k \in 1..Len(rs) :
                 ~rs[k].ok /\ \A j \in 1..(k - 1) : rs[j].ok])

\* str.encode('utf-8'), for code points below 0x800
EncodeChar(cp) ==
  IF cp < 128 THEN <<cp>> ELSE <<192 + (cp \div 64), 128 + (cp % 64)>>
str_encode(text) == Join([k \in 1..Len(text) |-> EncodeChar(text[k])])

\* bytes.decode('utf-8'): one- and two-byte sequences; any other byte is
\* rejected (the byte alphabets of this model hold no lead byte 0xE0..0xF4
\* of a longer sequence).
RECURSIVE bytes_decode(_)
bytes_decode(d) ==
  IF d = <<>> THEN [ok |-> TRUE, text |-> <<>>]
  ELSE IF d[1] < 128 THEN
    LET rest == bytes_decode(Tail(d)) IN
    IF rest.ok THEN [ok |-> TRUE, text |-> <<d[1]>> \o rest.text]
    ELSE rest
  ELSE IF d[1] >= 194 /\ d[1] <= 223 /\ Len(d) >= 2
          /\ d[2] >= 128 /\ d[2] <= 191 THEN
    LET rest == bytes_decode(From(d, 2)) IN
    IF rest.ok
    THEN [ok |-> TRUE, text |-> <<(d[1] - 192) * 64 + (d[2] - 128)>> \o rest.text]
    ELSE rest
  ELSE Raise("UnicodeDecodeError")

SignedTypechars == {"b", "h", "i", "l", "q"}

\* the w low bytes of x, least significant first (two's complement)
RECURSIVE LowBytes(_, _)
LowBytes(x, w) ==
  IF w = 0 THEN <<>> ELSE <<x % 256>> \o LowBytes(x \div 256, w - 1)

\* what is left of x above its w low bytes
RECURSIVE HighPart(_, _)
HighPart(x, w) == IF w = 0 THEN x ELSE HighPart(x \div 256, w - 1)

Reverse(s) == [k \in 1..Len(s) |-> s[Len(s) + 1 - k]]

\* struct.pack of one integer field; struct.error when x is out of range
InRange(ch, x, w, low) ==
  IF ch \in SignedTypechars
  THEN \/ HighPart(x, w) = 0 /\ low[w] < 128
       \/ HighPart(x, w) = -1 /\ low[w] >= 128
  ELSE HighPart(x, w) = 0

PackBytes(order, ch, x, w, low) ==
  IF ~InRange(ch, x, w, low) THEN StructError
  ELSE [ok |-> TRUE, data |-> IF order = ">" THEN Reverse(low) ELSE low]

PackInt(order, ch, x) ==
  PackBytes(order, ch, x, UnitSize("std", ch),
            LowBytes(x, UnitSize("std", ch)))

\* the integer of little-endian bytes, the top byte taken as signed or not
RECURSIVE FromLow(_, _)
FromLow(b, signed) ==
  IF Len(b) = 1 THEN (IF signed /\ b[1] >= 128 THEN b[1] - 256 ELSE b[1])
  ELSE b[1] + 256 * FromLow(Tail(b), signed)

\* struct.unpack of one integer field
UnpackInt(order, ch, d) ==
  FromLow(IF order = ">" THEN Reverse(d) ELSE d, ch \in SignedTypechars)

\* The fields of a format of integer type characters with optional counts
\* (the only formats the codecs of this model are built with): one type
\* character per packed value.
RECURSIVE Fields(_), FieldsItem(_, _)
Fields(f) ==
  IF f = <<>> THEN <<>>
  ELSE IF f[1] = " " THEN Fields(Tail(f))
  ELSE FieldsItem(f, LeadingDigits(f))

FieldsItem(f, k) ==
  Repeat(f[k + 1], IF k = 0 THEN 1 ELSE ToInt(SubSeq(f, 1, k)))
  \o Fields(From(f, k + 1))

\* struct.pack(fmt, *vals): the format must compile, with as many values as
\* fields, each in range
PackFields(ps) ==
  IF FirstError(ps) # None THEN StructError
  ELSE [ok |-> TRUE, data |-> Join([k \in 1..Len(ps) |-> ps[k].data])]

PackChecked(order, fs, vals) ==
  IF Len(vals) # Len(fs) THEN StructError
  ELSE PackFields([k \in 1..Len(fs) |-> PackInt(order, fs[k], vals[k])])

Pack(order, f, vals) ==
  IF ~StructSize(<<order>> \o f).ok THEN StructError
  ELSE PackChecked(order, Fields(f), vals)

\* the offset of field k (0-based start) in a packed buffer
RECURSIVE Offset(_, _)
Offset(fs, k) ==
  IF k = 1 THEN 0 ELSE Offset(fs, k - 1) + UnitSize("std", fs[k - 1])

\* struct.unpack(fmt, data): the format must compile and the buffer have
\* its size
UnpackChecked(order, fs, total, d) ==
  IF ~total.ok THEN StructError
  ELSE IF Len(d) # total.size THEN StructError
  ELSE [ok |-> TRUE,
        value |-> [k \in 1..Len(fs) |->
                     UnpackInt(order, fs[k],
                               SubSeq(d, Offset(fs, k) + 1,
                                      Offset(fs, k) + UnitSize("std", fs[k])))]]

Unpack(order, f, d) ==
  UnpackChecked(order, Fields(f), StructSize(<<order>> \o f), d)

(***************************************************************************)
(* container.py: the constructors. A container is a record of the          *)
(* attributes __init__ sets (without their leading underscore); datasize   *)
(* is None when __init__ sets no _datasize.                                *)
(***************************************************************************)
DEFAULT_FMT_FIRST == "<"

\* FixedSizeStructBasedContainer.__init__ (the fmt_first test raises
\* nothing); structsup.sizes may raise struct.error
FixedSizeStructBasedContainerInit(f, ff, ss) ==
  IF ~ss.ok THEN ss
  ELSE [ok |-> TRUE, kind |-> "FixedSizeStructBasedContainer",
        fmt |-> f, fmt_first |-> ff,
        subsize |-> Node([k \in 1..Len(ss.sizes) |-> Leaf(ss.sizes[k])]),
        datasize |-> Some(Sum(ss.sizes))]

FixedSizeStructBasedContainerFirst(f, ff) ==
  FixedSizeStructBasedContainerInit(f, ff, sizes(<<ff>> \o f))

FixedSizeStructBasedContainer(f, fmt_first) ==
  FixedSizeStructBasedContainerFirst(
    f, IF fmt_first = None THEN DEFAULT_FMT_FIRST ELSE fmt_first[1])

\* Integer._valid_sizes
valid_sizes(size) ==
  CASE size = 1 -> <<"B", "b">>
    [] size = 2 -> <<"H", "h">>
    [] size = 4 -> <<"I", "i">>
    [] size = 8 -> <<"Q", "q">>
    [] OTHER -> <<>>

\* Integer.__init__
\* super().__init__ done, Integer.subsize returns self._subsize[0]
IntegerInit(base) ==
  [base EXCEPT !.kind = "Integer", !.subsize = base.subsize.node[1]]

Integer(size, signed) ==
  IF valid_sizes(size) = <<>> THEN Raise("InitializationValueError")
  ELSE IntegerInit(FixedSizeStructBasedContainer(
                     <<valid_sizes(size)[IF signed THEN 2 ELSE 1]>>, None))

\* VarSizeString.__init__; sizec None is Integer()
VarSizeString(sizec) ==
  [ok |-> TRUE, kind |-> "VarSizeString", encoding |-> "utf-8",
   sizec |-> IF sizec = None THEN Integer(4, FALSE) ELSE sizec[1],
   datasize |-> None]

\* StoppedString.__init__
StoppedString(stop) ==
  [ok |-> TRUE, kind |-> "StoppedString", encoding |-> "utf-8",
   stop |-> stop, datasize |-> None]

\* Container.datasize
datasize(c) == c.datasize

\* Container.fixed
Container_fixed(c) == datasize(c) # None

\* Row.fixed, which overrides it
Row_fixed(c) == c.n # None /\ Container_fixed(c)

\* c.fixed, dispatched on the class
fixed(c) == IF c.kind = "Row" THEN Row_fixed(c) ELSE Container_fixed(c)

\* the attribute elementc.size that Array.__init__ reads: no container
\* class defines it
elementc_size(c) == None

\* Array.__init__; cls is "Array", or "StandardDictionary" for the subclass
ArrayInit(cls, elementc, n) ==
  IF n # None /\ n[1] < 1 THEN Raise("InitializationValueError")
  ELSE IF n # None /\ fixed(elementc) /\ elementc_size(elementc) = None
  THEN Raise("AttributeError")
  ELSE [ok |-> TRUE, kind |-> cls, elementc |-> elementc, n |-> n,
        datasize |-> IF n # None /\ fixed(elementc)
                     THEN Some(n[1] * elementc_size(elementc)[1]) ELSE None]

Array(elementc, n) == ArrayInit("Array", elementc, n)

\* VarSizeArray.__init__; sizec None is Integer()
VarSizeArray(elementc, sizec) ==
  [ok |-> TRUE, kind |-> "VarSizeArray", elementc |-> elementc,
   sizec |-> IF sizec = None THEN Integer(4, FALSE) ELSE sizec[1],
   datasize |-> None]

\* the _datasize Row.__init__ sets: whenever every element is fixed,
\* whether n was given or not
RowDatasize(elementcs) ==
  IF \A k \in 1..Len(elementcs) : fixed(elementcs[k])
  THEN Some(Sum([k \in 1..Len(elementcs) |-> datasize(elementcs[k])[1]]))
  ELSE None

\* Row.__init__
Row(elementcs, n) ==
  IF elementcs = <<>> THEN Raise("InitializationPosArgMissingError")
  ELSE IF n # None /\ n[1] # Len(elementcs)
  THEN Raise("InitializationValueError")
  ELSE [ok |-> TRUE, kind |-> "Row", elementcs |-> elementcs, n |-> n,
        datasize |-> RowDatasize(elementcs)]

\* Row.n
RowN(c) == IF c.n # None THEN c.n[1] ELSE Len(c.elementcs)

\* StandardDictionary.__init__: an Array of Row(keyc, valuec)
StandardDictionary(keyc, valuec, n) ==
  ArrayInit("StandardDictionary", Row(<<keyc, valuec>>, None), n)

\* Container.trim_data
trim_data(c, d, ie) ==
  IF fixed(c) /\ ie /\ Len(d) # datasize(c)[1]
  THEN Raise("InvalidParamSizeError")
  ELSE [ok |-> TRUE,
        data |-> IF fixed(c) /\ ~ie THEN Upto(d, datasize(c)[1]) ELSE d]

(***************************************************************************)
(* container.py: data (encode) and value (decode)                          *)
(***************************************************************************)
RECURSIVE data(_, _), value(_, _, _)

\* FixedSizeStructBasedContainer.data
FixedSizeStructBasedContainer_data(c, val) ==
  LET p == Pack(c.fmt_first, c.fmt, val) IN
  IF ~p.ok THEN p
  ELSE Result(val, p.data, datasize(c)[1], c.subsize)

\* FixedSizeStructBasedContainer.value
FixedSizeStructBasedContainer_value(c, d, ie) ==
  LET t == trim_data(c, d, ie) IN
  IF ~t.ok THEN t
  ELSE LET u == Unpack(c.fmt_first, c.fmt, t.data) IN
       IF ~u.ok THEN u
       ELSE Result(u.value, t.data, datasize(c)[1], c.subsize)

\* Integer._norm_result
norm_result(c, r) ==
  IF ~r.ok THEN r ELSE Result(r.value[1], r.data, datasize(c)[1], c.subsize)

\* Integer.data
Integer_data(c, val) ==
  norm_result(c, FixedSizeStructBasedContainer_data(c, <<val>>))

\* Integer.value
Integer_value(c, d, ie) ==
  norm_result(c, FixedSizeStructBasedContainer_value(c, d, ie))

\* VarSizeString.data
VarSizeString_data(c, val) ==
  LET str_data == str_encode(val)
      sizec_result == data(c.sizec, Len(str_data))
  IN IF ~sizec_result.ok THEN sizec_result
     ELSE Result(val, sizec_result.data \o str_data,
                 sizec_result.datasize + Len(str_data),
                 Node(<<Leaf(sizec_result.datasize), Leaf(Len(str_data))>>))

\* the datasize VarSizeString.value computes from the length prefix
VarSizeString_datasize(sizec_result) ==
  sizec_result.datasize + sizec_result.value

\* VarSizeString.value: no test that the buffer holds the announced bytes
VarSizeString_value(c, d, ie) ==
  LET sizec_result == value(c.sizec, d, FALSE) IN
  IF ~sizec_result.ok THEN sizec_result
  ELSE LET ds == VarSizeString_datasize(sizec_result)
           d2 == IF ie THEN d ELSE Upto(d, ds)
           txt == bytes_decode(From(d2, sizec_result.datasize))
       IN IF ie /\ Len(d) # ds THEN Raise("InvalidParamSizeError")
          ELSE IF ~txt.ok THEN txt
          ELSE Result(txt.text, d2, ds,
                      Node(<<Leaf(sizec_result.datasize),
                             Leaf(sizec_result.value)>>))

\* bytes.endswith
endswith(d, stop) ==
  Len(d) >= Len(stop) /\ From(d, Len(d) - Len(stop)) = stop

\* StoppedString.data
StoppedString_data(c, val) ==
  LET d == str_encode(val) \o c.stop IN
  Result(val, d, Len(d),
         Node(<<Leaf(Len(d) - Len(c.stop)), Leaf(Len(c.stop))>>))

\* the lengths l in range(len(data)+1) whose prefix data[:l] ends with stop
StopLengths(d, stop) == {l \in 0..Len(d) : endswith(Upto(d, l), stop)}

\* a variant of the scan below that keeps the last match (a search from
\* the end of the buffer)
StopPrefixLongest(d, stop) ==
  Upto(d, CHOOSE l \in StopLengths(d, stop) :
            \A m \in StopLengths(d, stop) : l >= m)

\* the prefix the for loop of StoppedString.value breaks at: the first one
\* in increasing length
StopPrefix(d, stop) ==
  Upto(d, CHOOSE l \in StopLengths(d, stop) :
            \A m \in StopLengths(d, stop) : l <= m)

\* the data StoppedString.value goes on with: all of it when is_entire,
\* else the prefix the scan stops at
StoppedString_span(d, stop, ie) == IF ie THEN d ELSE StopPrefix(d, stop)

\* StoppedString.value
StoppedString_value(c, d, ie) ==
  IF ie /\ ~endswith(d, c.stop) THEN Raise("NotStoppedError")
  ELSE IF ~ie /\ StopLengths(d, c.stop) = {} THEN Raise("NotStoppedError")
  ELSE LET d2 == StoppedString_span(d, c.stop, ie)
           txt == bytes_decode(Upto(d2, Len(d2) - Len(c.stop)))
       IN IF ~txt.ok THEN txt
          ELSE Result(txt.text, d2, Len(d2),
                      Node(<<Leaf(Len(d2) - Len(c.stop)), Leaf(Len(c.stop))>>))

\* the outcome of list(...) over element outcomes: the first exception, or
\* the results
Collected(rs) ==
  IF FirstError(rs) # None THEN FirstError(rs)[1]
  ELSE [ok |-> TRUE, eresults |-> rs]

Values(rs) == [k \in 1..Len(rs) |-> rs[k].value]
Datas(rs) == [k \in 1..Len(rs) |-> rs[k].data]
Datasizes(rs) == [k \in 1..Len(rs) |-> rs[k].datasize]
Subsizes(rs) == [k \in 1..Len(rs) |-> rs[k].subsize]

\* the chunks of the zip/islice recipe: consecutive slices of w bytes
Chunks(d, w) ==
  IF w = 0 THEN <<>>
  ELSE [k \in 1..(Len(d) \div w) |-> SubSeq(d, (k - 1) * w + 1, k * w)]

\* Array.data
Array_data(c, val) ==
  IF c.n # None /\ Len(val) # c.n[1] THEN Raise("InvalidParamSizeError")
  ELSE LET it == Collected([k \in 1..Len(val) |-> data(c.elementc, val[k])])
       IN IF ~it.ok THEN it
          ELSE LET d == Join(Datas(it.eresults)) IN
               Result(val, d, Len(d), Node(Subsizes(it.eresults)))

\* Array._iter_varsize_eresults, from cursor i with cnt elements read. An
\* element of datasize 0 leaves the cursor where it is: with n unset the
\* while loop then never ends.
RECURSIVE Array_iter_varsize_eresults(_, _, _, _, _)
Array_iter_varsize_eresults(c, d, i, cnt, acc) ==
  IF From(d, i) = <<>> THEN [ok |-> TRUE, eresults |-> acc]
  ELSE IF c.n # None /\ cnt = c.n[1] THEN [ok |-> TRUE, eresults |-> acc]
  ELSE LET r == value(c.elementc, From(d, i), FALSE) IN
       IF ~r.ok THEN r
       ELSE IF r.datasize = 0 /\ c.n = None THEN Raise("never returns")
       ELSE Array_iter_varsize_eresults(c, d, i + r.datasize, cnt + 1,
                                        Append(acc, r))

\* One turn of the while loop of Array._iter_varsize_eresults up to its
\* yield, for a walk w at the loop test: the loop ends on exhausted data or
\* on n elements, else the element at the cursor is decoded and yielded, or
\* its exception leaves the generator.
Array_walk_yield(w, r) ==
  IF ~r.ok THEN [w EXCEPT !.pc = "raised"]
  ELSE [w EXCEPT !.pc = "yield", !.datasize = r.datasize]

Array_walk_element(c, d, w) ==
  IF From(d, w.i) = <<>> THEN [w EXCEPT !.pc = "done"]
  ELSE IF c.n # None /\ w.n = c.n[1] THEN [w EXCEPT !.pc = "done"]
  ELSE Array_walk_yield(w, value(c.elementc, From(d, w.i), FALSE))

\* The generator resumed after its yield: i += result.datasize, n += 1, and
\* back to the loop test. The count n is read only when self.n is set, and
\* is kept only then.
Array_walk_resume(c, w) ==
  [w EXCEPT !.pc = "loop",
            !.i = w.i + w.datasize,
            !.n = IF c.n = None THEN w.n ELSE w.n + 1,
            !.datasize = 0]

\* the elements of the fixed-size path of Array.value
Array_fixed_eresults(c, d) ==
  LET edatasize == datasize(c.elementc)[1] IN
  IF edatasize = 0 THEN Raise("ZeroDivisionError")
  ELSE IF Len(d) % edatasize # 0 THEN Raise("InvalidParamSizeError")
  ELSE Collected([k \in 1..Len(Chunks(d, edatasize)) |->
                    value(c.elementc, Chunks(d, edatasize)[k], TRUE)])

\* the datasize Array.value reports
Array_datasize(eresults) == Sum(Datasizes(eresults))

\* Array.value
Array_value(c, d, ie) ==
  LET t == trim_data(c, d, ie) IN
  IF ~t.ok THEN t
  ELSE LET it == IF fixed(c.elementc) THEN Array_fixed_eresults(c, t.data)
                 ELSE Array_iter_varsize_eresults(c, t.data, 0, 0, <<>>)
       IN IF ~it.ok THEN it
          ELSE Result(Values(it.eresults), t.data,
                      Array_datasize(it.eresults),
                      Node(Subsizes(it.eresults)))

\* VarSizeArray.data
VarSizeArray_data(c, val) ==
  LET sizec_result == data(c.sizec, Len(val)) IN
  IF ~sizec_result.ok THEN sizec_result
  ELSE LET it == Collected([k \in 1..Len(val) |-> data(c.elementc, val[k])])
       IN IF ~it.ok THEN it
          ELSE LET d == sizec_result.data \o Join(Datas(it.eresults)) IN
               Result(val, d, Len(d),
                      Node(<<Leaf(sizec_result.datasize),
                             Node(Subsizes(it.eresults))>>))

\* VarSizeArray._iter_varsize_eresults, from cursor i with left elements to
\* read
RECURSIVE VarSizeArray_iter_varsize_eresults(_, _, _, _, _, _)
VarSizeArray_iter_varsize_eresults(c, edata, i, left, ie, acc) ==
  IF left = 0 THEN
    IF ie /\ From(edata, i) # <<>> THEN Raise("InvalidParamSizeError")
    ELSE [ok |-> TRUE, eresults |-> acc]
  ELSE LET r == value(c.elementc, From(edata, i), FALSE) IN
       IF ~r.ok THEN r
       ELSE VarSizeArray_iter_varsize_eresults(c, edata, i + r.datasize,
                                               left - 1, ie, Append(acc, r))

\* the data VarSizeArray.value reports (and whose length is its datasize):
\* the fixed-size path cuts the buffer to the announced size when not
\* is_entire, the variable-size path keeps the buffer it was given
VarSizeArray_span(c, d, ds, ie) ==
  IF fixed(c.elementc) /\ ~ie THEN Upto(d, ds) ELSE d

\* VarSizeArray.value
VarSizeArray_value(c, d, ie) ==
  LET sizec_result == value(c.sizec, d, FALSE) IN
  IF ~sizec_result.ok THEN sizec_result
  ELSE
    LET n == sizec_result.value
        ds == sizec_result.datasize + n * datasize(c.elementc)[1]
        d2 == VarSizeArray_span(c, d, ds, ie)
        edata == From(d2, sizec_result.datasize)
        it == IF fixed(c.elementc)
              THEN IF ie /\ ds # Len(d) THEN Raise("InvalidParamSizeError")
                   ELSE IF ~ie /\ Len(d) < ds
                   THEN Raise("InvalidParamSizeError")
                   ELSE Collected(
                          [k \in 1..Len(Chunks(edata, datasize(c.elementc)[1]))
                             |-> value(c.elementc,
                                       Chunks(edata, datasize(c.elementc)[1])[k],
                                       TRUE)])
              ELSE VarSizeArray_iter_varsize_eresults(c, edata, 0, n, ie, <<>>)
    IN IF ~it.ok THEN it
       ELSE Result(Values(it.eresults), d2, Len(d2),
                   Node(<<Leaf(sizec_result.datasize),
                          Node(Subsizes(it.eresults))>>))

\* Row.data
Row_data(c, val) ==
  IF Len(val) # RowN(c) THEN Raise("InvalidParamSizeError")
  ELSE LET it == Collected([k \in 1..Len(val) |->
                              data(c.elementcs[k], val[k])])
       IN IF ~it.ok THEN it
          ELSE LET d == Join(Datas(it.eresults)) IN
               Result(val, d, Len(d), Node(Subsizes(it.eresults)))

\* Row._iter_eresults, from cursor i at element e (1-based)
RECURSIVE Row_iter_eresults(_, _, _, _, _, _)
Row_iter_eresults(c, d, i, e, ie, acc) ==
  IF e > RowN(c) THEN
    IF ie /\ From(d, i) # <<>> THEN Raise("InvalidParamSizeError")
    ELSE [ok |-> TRUE, eresults |-> acc]
  ELSE LET r == value(c.elementcs[e], From(d, i), FALSE) IN
       IF ~r.ok THEN r
       ELSE Row_iter_eresults(c, d, i + r.datasize, e + 1, ie, Append(acc, r))

\* Row.value: data is the trimmed buffer, datasize the sum of the elements'
Row_value(c, d, ie) ==
  LET t == trim_data(c, d, ie) IN
  IF ~t.ok THEN t
  ELSE LET it == Row_iter_eresults(c, t.data, 0, 1, ie, <<>>) IN
       IF ~it.ok THEN it
       ELSE IF ie /\ Sum(Datasizes(it.eresults)) # Len(t.data)
       THEN Raise("InvalidParamSizeError")
       ELSE Result(Values(it.eresults), t.data, Sum(Datasizes(it.eresults)),
                   Node(Subsizes(it.eresults)))

\* a variant of the mapping below that puts a new key in front of the
\* others instead of after them
RECURSIVE OrderedDictNewestFirst(_)
OrderedDictNewestFirst(pairs) ==
  IF pairs = <<>> THEN <<>>
  ELSE LET m == OrderedDictNewestFirst(SubSeq(pairs, 1, Len(pairs) - 1))
           p == pairs[Len(pairs)]
       IN IF \E j \in 1..Len(m) : m[j][1] = p[1]
          THEN [j \in 1..Len(m) |-> IF m[j][1] = p[1] THEN <<p[1], p[2]>> ELSE m[j]]
          ELSE <<<<p[1], p[2]>>>> \o m

\* collections.OrderedDict(pairs): a mapping, as the sequence of its
\* <<key, value>> items in insertion order; a repeated key keeps its first
\* place and takes the last value
RECURSIVE OrderedDict(_)
OrderedDict(pairs) ==
  IF pairs = <<>> THEN <<>>
  ELSE LET m == OrderedDict(SubSeq(pairs, 1, Len(pairs) - 1))
           p == pairs[Len(pairs)]
       IN IF \E j \in 1..Len(m) : m[j][1] = p[1]
          THEN [j \in 1..Len(m) |-> IF m[j][1] = p[1] THEN <<p[1], p[2]>> ELSE m[j]]
          ELSE Append(m, <<p[1], p[2]>>)

\* StandardDictionary.data; value.items() is the mapping's item sequence
StandardDictionary_data(c, val) ==
  LET r == Array_data(c, val) IN
  IF ~r.ok THEN r ELSE Result(val, r.data, r.datasize, r.subsize)

\* a variant of StandardDictionary.value below whose mapping does not keep
\* the order of the decoded rows
StandardDictionary_value_newest_first(c, d, ie) ==
  LET r == Array_value(c, d, FALSE) IN
  IF ~r.ok THEN r
  ELSE Result(OrderedDictNewestFirst(r.value), r.data, r.datasize, r.subsize)

\* StandardDictionary.value: is_entire is not passed on to Array.value
StandardDictionary_value(c, d, ie) ==
  LET r == Array_value(c, d, FALSE) IN
  IF ~r.ok THEN r
  ELSE Result(OrderedDict(r.value), r.data, r.datasize, r.subsize)

\* c.data(val), dispatched on the class
data(c, val) ==
  CASE c.kind = "FixedSizeStructBasedContainer" ->
         FixedSizeStructBasedContainer_data(c, val)
    [] c.kind = "Integer" -> Integer_data(c, val)
    [] c.kind = "VarSizeString" -> VarSizeString_data(c, val)
    [] c.kind = "StoppedString" -> StoppedString_data(c, val)
    [] c.kind = "Array" -> Array_data(c, val)
    [] c.kind = "VarSizeArray" -> VarSizeArray_data(c, val)
    [] c.kind = "Row" -> Row_data(c, val)
    [] c.kind = "StandardDictionary" -> StandardDictionary_data(c, val)

\* c.value(d, is_entire=ie), dispatched on the class
value(c, d, ie) ==
  CASE c.kind = "FixedSizeStructBasedContainer" ->
         FixedSizeStructBasedContainer_value(c, d, ie)
    [] c.kind = "Integer" -> Integer_value(c, d, ie)
    [] c.kind = "VarSizeString" -> VarSizeString_value(c, d, ie)
    [] c.kind = "StoppedString" -> StoppedString_value(c, d, ie)
    [] c.kind = "Array" -> Array_value(c, d, ie)
    [] c.kind = "VarSizeArray" -> VarSizeArray_value(c, d, ie)
    [] c.kind = "Row" -> Row_value(c, d, ie)
    [] c.kind = "StandardDictionary" -> StandardDictionary_value(c, d, ie)

(***************************************************************************)
(* Inputs                                                                  *)
(***************************************************************************)
MaxFmt == 4
MaxText == 2
MaxCount == 2
MaxExtra == 1
MaxBuf == 3

FmtChars == {"<", ">", "0", "2", "4", "H", "s", " "}
Formats == SeqsUpTo(FmtChars, MaxFmt)

\* text: NUL, "a", "b" and a two-byte character
Texts == SeqsUpTo({0, 97, 233}, MaxText)
ElementTexts == {<<>>, <<0>>, <<97>>, <<98>>}
Ints == {-1, 1, 2, 300}
ElementInts == {1, 2}
Extras == SeqsUpTo({0, 97}, MaxExtra)
\* buffers of small bytes: each reads as a count, a terminator or a character
Buffers == SeqsUpTo({0, 1, 2}, MaxBuf)

I1 == Integer(1, FALSE)
I2 == Integer(2, FALSE)
I4 == Integer(4, FALSE)
LS == VarSizeString(None)
LS1 == VarSizeString(Some(I1))
TS == StoppedString(<<0>>)

\* the constructor calls
IntegerSizes == {1, 2, 3, 4}
StructFormats == {<<"B", "H">>, <<"2", "B">>, <<"H", "<", "B">>}
SizeCodecs == {None, Some(I1)}
Stops == {<<>>, <<0>>, <<0, 0>>}
Counts == {None, Some(0), Some(1), Some(2)}
ArrayElements ==
  {I1, I2, LS1, TS, StoppedString(<<>>), Row(<<I1, I1>>, Some(2)),
   VarSizeArray(TS, Some(I1))}
\* VarSizeArray(elementc, sizec) calls. The default 4-byte sizec is only used
\* over elements of width 1 or of at least one byte each, so that a large
\* announced count is refused at once or runs out of buffer.
VarSizeArrayCalls ==
  {<<e, Some(I1)>> : e \in ArrayElements} \cup {<<e, None>> : e \in {I1, LS}}
RowElementLists ==
  {<<>>, <<I1>>, <<I1, I2>>, <<LS, I1>>, <<I1, TS>>, <<TS, LS1>>,
   <<VarSizeArray(LS, None), I1>>, <<VarSizeArray(I1, Some(I1)), LS1>>}
RowCounts == {None, Some(1), Some(2)}
KeyCodecs == {LS, TS}
ValueCodecs == {I4, LS1}

\* the values data() is called with for container c, by its class; fewer
\* for the elements of a combinator (top = FALSE)
RECURSIVE ValuesFor(_, _)
ValuesFor(c, top) ==
  CASE c.kind = "Integer" -> IF top THEN Ints ELSE ElementInts
    [] c.kind = "FixedSizeStructBasedContainer" ->
         [1..Len(Fields(c.fmt)) -> {1, 300}]
    [] c.kind \in {"VarSizeString", "StoppedString"} ->
         IF top THEN Texts ELSE ElementTexts
    [] c.kind \in {"Array", "VarSizeArray"} ->
         IF top THEN SeqsUpTo(ValuesFor(c.elementc, FALSE), MaxCount)
         ELSE {<<>>} \cup {<<a>> : a \in ValuesFor(c.elementc, FALSE)}
    [] c.kind = "Row" ->
         IF Len(c.elementcs) = 1
         THEN {<<>>} \cup {<<a>> : a \in ValuesFor(c.elementcs[1], FALSE)}
         ELSE {<<>>} \cup {<<a, b>> : a \in ValuesFor(c.elementcs[1], FALSE),
                                      b \in ValuesFor(c.elementcs[2], FALSE)}
    [] c.kind = "StandardDictionary" ->
         {m \in SeqsUpTo(ValuesFor(c.elementc.elementcs[1], FALSE)
                           \X ValuesFor(c.elementc.elementcs[2], FALSE),
                         MaxCount) :
            \A j, k \in 1..Len(m) : m[j][1] = m[k][1] => j = k}

NoCall == [ok |-> FALSE, err |-> "not called"]

\* no Array.value is running
NoWalk == [pc |-> "idle", i |-> 0, n |-> 0, datasize |-> 0]

Init ==
  /\ fmt_arg = <<>>
  /\ widths = NoCall
  /\ call = [cls |-> "none"]
  /\ codec = NoCall
  /\ value_arg = <<>>
  /\ encoded = NoCall
  /\ data_arg = <<>>
  /\ extra_arg = <<>>
  /\ entire_arg = FALSE
  /\ decoded = NoCall
  /\ walk = NoWalk

\* nothing was called yet
Fresh == widths = NoCall /\ call.cls = "none"

\* a call of structsup.sizes
Sizes ==
  /\ Fresh
  /\ \E f \in Formats :
       /\ fmt_arg' = f
       /\ widths' = sizes(f)
  /\ UNCHANGED <<call, codec, value_arg, encoded, data_arg, extra_arg,
                 entire_arg, decoded, walk>>

\* a constructor call and its outcome
Construct(cl, result) ==
  /\ call' = cl
  /\ codec' = result
  /\ UNCHANGED <<fmt_arg, widths, value_arg, encoded, data_arg, extra_arg,
                 entire_arg, decoded, walk>>

NewFixedSizeStructBasedContainer ==
  /\ Fresh
  /\ \E f \in StructFormats, fmt_first \in {None, Some(">")} :
       Construct([cls |-> "FixedSizeStructBasedContainer", fmt |-> f,
                  fmt_first |-> fmt_first],
                 FixedSizeStructBasedContainer(f, fmt_first))

NewInteger ==
  /\ Fresh
  /\ \E sz \in IntegerSizes, signed \in BOOLEAN :
       Construct([cls |-> "Integer", size |-> sz, signed |-> signed],
                 Integer(sz, signed))

NewVarSizeString ==
  /\ Fresh
  /\ \E sizec \in SizeCodecs :
       Construct([cls |-> "VarSizeString", sizec |-> sizec],
                 VarSizeString(sizec))

NewStoppedString ==
  /\ Fresh
  /\ \E stop \in Stops :
       Construct([cls |-> "StoppedString", stop |-> stop],
                 StoppedString(stop))

NewArray ==
  /\ Fresh
  /\ \E elementc \in ArrayElements, n \in Counts :
       Construct([cls |-> "Array", elementc |-> elementc, n |-> n],
                 Array(elementc, n))

NewVarSizeArray ==
  /\ Fresh
  /\ \E a \in VarSizeArrayCalls :
       Construct([cls |-> "VarSizeArray", elementc |-> a[1], sizec |-> a[2]],
                 VarSizeArray(a[1], a[2]))

NewRow ==
  /\ Fresh
  /\ \E elementcs \in RowElementLists, n \in RowCounts :
       Construct([cls |-> "Row", elementcs |-> elementcs, n |-> n],
                 Row(elementcs, n))

NewStandardDictionary ==
  /\ Fresh
  /\ \E keyc \in KeyCodecs, valuec \in ValueCodecs, n \in {None, Some(1)} :
       Construct([cls |-> "StandardDictionary", keyc |-> keyc,
                  valuec |-> valuec, n |-> n],
                 StandardDictionary(keyc, valuec, n))

\* codec.data(val) on a freshly constructed codec
Data ==
  /\ codec.ok
  /\ encoded = NoCall /\ decoded = NoCall /\ walk = NoWalk
  /\ \E val \in ValuesFor(codec, TRUE) :
       /\ value_arg' = val
       /\ encoded' = data(codec, val)
  /\ UNCHANGED <<fmt_arg, widths, call, codec, data_arg, extra_arg,
                 entire_arg, decoded, walk>>

\* codec.value(encoded.data + extra, is_entire=ie)
ValueOfEncoded ==
  /\ encoded.ok
  /\ decoded = NoCall
  /\ \E extra \in Extras, ie \in BOOLEAN :
       /\ extra_arg' = extra
       /\ data_arg' = encoded.data \o extra
       /\ entire_arg' = ie
       /\ decoded' = value(codec, encoded.data \o extra, ie)
  /\ UNCHANGED <<fmt_arg, widths, call, codec, value_arg, encoded, walk>>

\* codec.value(d, is_entire=ie) on any buffer
Value ==
  /\ codec.ok
  /\ encoded = NoCall /\ decoded = NoCall /\ walk = NoWalk
  /\ \E d \in Buffers, ie \in BOOLEAN :
       /\ data_arg' = d
       /\ entire_arg' = ie
       /\ decoded' = value(codec, d, ie)
  /\ UNCHANGED <<fmt_arg, widths, call, codec, value_arg, encoded, extra_arg,
                 walk>>

\* codec.value(d, is_entire=ie) on an Array over a variable-size element
\* codec, entered: the data is trimmed and list(it) starts the generator.
\* The walk is followed turn by turn for the Arrays of StoppedString
\* elements; Value gives the outcome of the whole call for every codec.
ArrayValueStart ==
  /\ codec.ok
  /\ encoded = NoCall /\ decoded = NoCall /\ walk = NoWalk
  /\ codec.kind = "Array"
  /\ ~fixed(codec.elementc)
  /\ codec.elementc.kind = "StoppedString"
  /\ \E d \in Buffers, ie \in BOOLEAN :
       /\ trim_data(codec, d, ie).ok
       /\ data_arg' = d
       /\ entire_arg' = ie
  /\ walk' = [NoWalk EXCEPT !.pc = "loop"]
  /\ UNCHANGED <<fmt_arg, widths, call, codec, value_arg, encoded, extra_arg,
                 decoded>>

\* the generator runs to its next yield, to its end or to an exception
ArrayWalkElement ==
  /\ walk.pc = "loop"
  /\ \E d \in {trim_data(codec, data_arg, entire_arg).data} :
       walk' = Array_walk_element(codec, d, walk)
  /\ UNCHANGED <<fmt_arg, widths, call, codec, value_arg, encoded, data_arg,
                 extra_arg, entire_arg, decoded>>

\* list(it) takes the yielded result and resumes the generator
ArrayWalkResume ==
  /\ walk.pc = "yield"
  /\ walk' = Array_walk_resume(codec, walk)
  /\ UNCHANGED <<fmt_arg, widths, call, codec, value_arg, encoded, data_arg,
                 extra_arg, entire_arg, decoded>>

\* the generator has ended: Array.value builds and returns its Result, or
\* the exception of the element leaves it
ArrayValueReturn ==
  /\ walk.pc \in {"done", "raised"}
  /\ walk' = [walk EXCEPT !.pc = "returned"]
  /\ decoded' = value(codec, data_arg, entire_arg)
  /\ UNCHANGED <<fmt_arg, widths, call, codec, value_arg, encoded, data_arg,
                 extra_arg, entire_arg>>

Next ==
  \/ Sizes
  \/ NewFixedSizeStructBasedContainer
  \/ NewInteger
  \/ NewVarSizeString
  \/ NewStoppedString
  \/ NewArray
  \/ NewVarSizeArray
  \/ NewRow
  \/ NewStandardDictionary
  \/ Data
  \/ ValueOfEncoded
  \/ Value
  \/ ArrayValueStart
  \/ ArrayWalkElement
  \/ ArrayWalkResume
  \/ ArrayValueReturn

Spec == Init /\ [][Next]_vars

\* Array.value is one synchronous call: once entered, the loop of its
\* generator goes on
FairSpec ==
  Spec /\ WF_vars(ArrayWalkElement) /\ WF_vars(ArrayWalkResume)

(***************************************************************************)
(* Properties                                                              *)
(***************************************************************************)
\* a value was encoded and value() was then called on encoded.data + extra
DecodedEncoded == encoded.ok /\ decoded # NoCall

\* the sum of the leaves of a subsize
RECURSIVE LeafSum(_)
LeafSum(t) ==
  IF IsLeaf(t) THEN t.leaf
  ELSE Sum([k \in 1..Len(t.node) |-> LeafSum(t.node[k])])

\* C1: round trip. For every constructed codec and every value its data()
\* accepts, value(data(v).data, is_entire=True) succeeds and gives v back.
C1_RoundTrip ==
  (DecodedEncoded /\ extra_arg = <<>> /\ entire_arg)
    => (decoded.ok /\ decoded.value = value_arg)

\* C2: prefix decode. For every variable-size codec, every accepted value v
\* and every extra, value(data(v).data + extra, is_entire=False) succeeds with
\* the datasize of data(v) and the value v.
C2_PrefixDecode ==
  (DecodedEncoded /\ ~entire_arg /\ ~fixed(codec))
    => (/\ decoded.ok
        /\ decoded.datasize = encoded.datasize
        /\ decoded.value = value_arg)

\* C3: size consistency. Every Result of data() and of a successful value()
\* has datasize = len(data), and the leaves of its subsize sum to datasize.
C3_SizeConsistency ==
  \A r \in {encoded, decoded} :
    r.ok => (r.datasize = Len(r.data) /\ LeafSum(r.subsize) = r.datasize)

\* C4: is_entire strictness. value(data, is_entire=True) raises or returns a
\* datasize equal to len(data).
C4_EntireStrict ==
  (decoded # NoCall /\ entire_arg /\ decoded.ok)
    => decoded.datasize = Len(data_arg)

\* C5: fixed-count Array. Array(elementc, n) with n >= 1 and a fixed elementc
\* constructs a fixed codec of datasize n * elementc.datasize.
C5_FixedCountArray ==
  (/\ call.cls = "Array"
   /\ call.n # None
   /\ call.n[1] >= 1
   /\ fixed(call.elementc))
    => (/\ codec.ok
        /\ fixed(codec)
        /\ datasize(codec) = Some(call.n[1] * datasize(call.elementc)[1]))

\* Formats written token by token: an optional marker, then tokens
\* [count]typechar, each with the widths the property gives it.
MaxTokens == 2
TokenMarkers == {<<>>, <<"<">>, <<">">>}
Tokens ==
  {[count |-> cnt, typechar |-> ch] :
     cnt \in {None, Some(0), Some(2), Some(4)}, ch \in {"H", "s"}}
TokenLists == SeqsUpTo(Tokens, MaxTokens)
TokenCount(tk) == IF tk.count = None THEN 1 ELSE tk.count[1]
TokenText(tk) ==
  (IF tk.count = None THEN <<>> ELSE ToStr(tk.count[1])) \o <<tk.typechar>>
UnitWidth(ch) == IF ch = "H" THEN 2 ELSE 1
IsLengthed(ch) == ch \in {"s", "p", "x"}
RenderTokens(m, tks) == m \o Join([k \in 1..Len(tks) |-> TokenText(tks[k])])

\* count widths for an ordinary type character, whatever the count
WidthsPerCount(tk) ==
  IF IsLengthed(tk.typechar)
  THEN <<TokenCount(tk) * UnitWidth(tk.typechar)>>
  ELSE Repeat(UnitWidth(tk.typechar), TokenCount(tk))

\* as above, but one width 0 for an ordinary type character of count 0
WidthsZeroKept(tk) ==
  IF IsLengthed(tk.typechar)
  THEN <<TokenCount(tk) * UnitWidth(tk.typechar)>>
  ELSE IF TokenCount(tk) = 0 THEN <<0>>
  ELSE Repeat(UnitWidth(tk.typechar), TokenCount(tk))

TokenFormatsPerCount ==
  {[fmt |-> RenderTokens(m, tks),
    widths |-> Join([k \in 1..Len(tks) |-> WidthsPerCount(tks[k])])] :
     m \in TokenMarkers, tks \in TokenLists}

TokenFormatsZeroKept ==
  {[fmt |-> RenderTokens(m, tks),
    widths |-> Join([k \in 1..Len(tks) |-> WidthsZeroKept(tks[k])])] :
     m \in TokenMarkers, tks \in TokenLists}

\* C6 as stated: sizes(fmt) is the concatenation, token by token, of one
\* width count * unit for a lengthed type character and of count widths of
\* the unit for any other one, so that a count of 0 adds no width.
C6_WidthsPerCount ==
  widths # NoCall =>
    \A tf \in TokenFormatsPerCount :
      fmt_arg = tf.fmt => widths = [ok |-> TRUE, sizes |-> tf.widths]

\* C6: sizes(fmt) is the concatenation, token by token, of one width
\* count * unit for a lengthed type character, and for any other type
\* character of count widths of the unit when count >= 1 and of one width 0
\* when count = 0.
C6_WidthsZeroKept ==
  widths # NoCall =>
    \A tf \in TokenFormatsZeroKept :
      fmt_arg = tf.fmt => widths = [ok |-> TRUE, sizes |-> tf.widths]

\* sizes("0H2s") = (0, 2): a zero count on an ordinary type character and a
\* count scaling a lengthed one
C6_Witness ==
  /\ fmt_arg = <<"0", "H", "2", "s">>
  /\ widths = [ok |-> TRUE, sizes |-> <<0, 2>>]

\* C7: sizes(fmt) raises InvalidStructFormatError for every format with a
\* marker character at a position other than the first.
C7_MisplacedMarker ==
  (widths # NoCall /\ \E k \in 2..Len(fmt_arg) : fmt_arg[k] \in FIRSTS)
    => (~widths.ok /\ widths.err = "InvalidStructFormatError")

\* value() was called on a StoppedString
StoppedStringDecoded == call.cls = "StoppedString" /\ decoded # NoCall

\* data[:l] ends with stop
PrefixEndsWith(d, l, stop) ==
  l >= Len(stop) /\ SubSeq(d, l - Len(stop) + 1, l) = stop

\* l is the length of the shortest prefix of d that ends with stop
ShortestStopped(d, l, stop) ==
  /\ l \in 0..Len(d)
  /\ PrefixEndsWith(d, l, stop)
  /\ \A m \in 0..(l - 1) : ~PrefixEndsWith(d, m, stop)

\* the result consumed data[:l]: its text is what precedes the terminator
ConsumedPrefix(d, l, stop) ==
  /\ decoded.datasize = l
  /\ str_encode(decoded.value) = SubSeq(d, 1, l - Len(stop))

NotStopped == ~decoded.ok /\ decoded.err = "NotStoppedError"

\* C8 as stated: for both values of is_entire a successful
\* StoppedString.value consumes the shortest prefix that ends with stop; with
\* is_entire=False it raises NotStoppedError exactly when no prefix does.
C8_EarliestMatchAlways ==
  StoppedStringDecoded =>
    /\ decoded.ok =>
         \E l \in 0..Len(data_arg) :
           /\ ShortestStopped(data_arg, l, call.stop)
           /\ ConsumedPrefix(data_arg, l, call.stop)
    /\ ~entire_arg =>
         (NotStopped <=>
            \A l \in 0..Len(data_arg) : ~PrefixEndsWith(data_arg, l, call.stop))

\* C8: with is_entire=False a successful StoppedString.value consumes the
\* shortest prefix that ends with stop, and it raises NotStoppedError exactly
\* when no prefix does; with is_entire=True it consumes the whole buffer,
\* and it raises NotStoppedError exactly when the buffer does not end with
\* stop.
C8_EarliestMatch ==
  StoppedStringDecoded =>
    /\ (~entire_arg /\ decoded.ok) =>
         \E l \in 0..Len(data_arg) :
           /\ ShortestStopped(data_arg, l, call.stop)
           /\ ConsumedPrefix(data_arg, l, call.stop)
    /\ ~entire_arg =>
         (NotStopped <=>
            \A l \in 0..Len(data_arg) : ~PrefixEndsWith(data_arg, l, call.stop))
    /\ (entire_arg /\ decoded.ok) =>
         ConsumedPrefix(data_arg, Len(data_arg), call.stop)
    /\ entire_arg =>
         (NotStopped <=> ~PrefixEndsWith(data_arg, Len(data_arg), call.stop))

\* "a" + NUL followed by one more byte decodes to "a" with datasize 2
C8_Witness ==
  /\ StoppedStringDecoded
  /\ call.stop = <<0>>
  /\ ~entire_arg
  /\ data_arg = <<97, 0, 97>>
  /\ decoded.ok
  /\ decoded.value = <<97>>
  /\ decoded.datasize = 2

\* the calls StandardDictionary(VarSizeString(), Integer(4), n)
DictionaryOfStringToInteger4 ==
  /\ call.cls = "StandardDictionary"
  /\ call.keyc = VarSizeString(None)
  /\ call.valuec = Integer(4, FALSE)

\* C9: for StandardDictionary(VarSizeString(), Integer(4)) and every mapping
\* with unique keys that data() accepts, value(data(m).data) succeeds and
\* gives the items of m in the order of m.
C9_DictionaryOrder ==
  (DictionaryOfStringToInteger4 /\ DecodedEncoded /\ extra_arg = <<>>)
    => (decoded.ok /\ decoded.value = value_arg)

\* {"b": 1, "a": 2} comes back with the keys in the order b, a
C9_Witness ==
  /\ DictionaryOfStringToInteger4
  /\ DecodedEncoded
  /\ extra_arg = <<>>
  /\ value_arg = <<<<<<98>>, 1>>, <<<<97>>, 2>>>>
  /\ decoded.ok
  /\ decoded.value = <<<<<<98>>, 1>>, <<<<97>>, 2>>>>

\* C10: for every constructed codec, datasize is defined (not None) if and
\* only if fixed is true.
C10_DatasizeIffFixed ==
  codec.ok => ((datasize(codec) # None) <=> fixed(codec))

\* the loop of a running Array.value has ended, by return or by exception
ArrayWalkEnded == walk.pc \in {"done", "raised", "returned"}

\* C11: decode termination. For every constructed Array over a
\* variable-size element codec and every buffer, a value() call that has
\* entered its element walk finishes, with a result or an exception.
C11_DecodeTerminates == (walk.pc = "loop") ~> ArrayWalkEnded

====
